---- MODULE Spec2Model ----
(***************************************************************************)
(* Timelapser backend: the HLS session registry (HLSService), the ffmpeg   *)
(* supervisor (FFmpegManager), the RTSP prober (RTSPService) and the       *)
(* camera routes, as one state machine, with the rate-limiting middleware  *)
(* in front of the routes and the global exception handler behind them.    *)
(*                                                                         *)
(* Scheduling: every request handler and the reaper run on one asyncio     *)
(* event loop.  A handler runs without interruption from one await to the  *)
(* next, so each action below is the code between two suspension points.   *)
(* The only awaits inside a request are the two prober calls of            *)
(* create_session; destroy_session is synchronous.                         *)
(***************************************************************************)
EXTENDS Integers, Sequences, FiniteSets, TLC

VARIABLES
    now,               \* datetime.utcnow(), in seconds since startup
    active_sessions,   \* HLSService.active_sessions: session id -> HLSSession
    active_processes,  \* FFmpegManager.active_processes: session id -> FFmpegProcess
    running,           \* the ffmpeg processes the OS still runs (Popen.poll() is None)
    fs,                \* directories under hls_output_dir: name -> set of file names
    pc,                \* per connect handler: where its coroutine is suspended
    rtsp_url,          \* per connect handler: the request's rtspUrl
    detected_codec,    \* per connect handler: the codec test_connection returned
    teardown,          \* the id destroy_session is tearing down (between lines 187 and 190)
    reaper_wake,       \* the instant the reaper's asyncio.sleep ends
    issued,            \* every value uuid4() has returned so far
    destroyed,         \* every id whose record has been removed from active_sessions
    cleanup_task,      \* HLSService._cleanup_task: the state of the reaper's task
    serving,           \* the application serves requests: shutdown_event has not run
    middleware,        \* the RateLimitMiddleware: its connect_limiter and disconnect_limiter
    admitted,          \* per limited endpoint and client key: the instants of the
                       \* requests the middleware has passed on so far
    last               \* the step just taken, when it changed anything: operation,
                       \* session id, HTTP status, exception, for a sweep the
                       \* two counts it logs, for a failed connectivity test
                       \* what became of the ffprobe subprocess, for a
                       \* teardown the signals terminate asked for

vars == <<now, active_sessions, active_processes, running, fs, pc, rtsp_url,
          detected_codec, teardown, reaper_wake, issued, destroyed, cleanup_task, serving,
          middleware, admitted, last>>

-----------------------------------------------------------------------------
(* Bounds of the model *)

MaxIds == 2
TimeSpan == 1
\* The largest requests_per_minute a limiter is built with when its limit is
\* taken from the environment, and the number of requests the limiters are
\* followed for
MaxRate == 2
MaxRequests == 4

(* Program constants *)

max_concurrent_connections == 1
session_timeout == 3600
hls_cleanup_interval == 3600
GracePeriod == 5
rate_limit_connect == 10
rate_limit_disconnect == 20
window_seconds == 60

\* One more connect request in flight than the registry admits
Handlers == 1..(max_concurrent_connections + 1)
Ids == 1..MaxIds
NoId == 0

\* The instants at which something can happen: the first seconds after
\* startup, and one instant a reaper interval after the last of them.
Instants == (0..TimeSpan) \cup {hls_cleanup_interval + TimeSpan}

-----------------------------------------------------------------------------
(* Small helpers *)

Restrict(f, S) == [x \in S |-> f[x]]

Min(S) == CHOOSE x \in S : \A y \in S : x <= y

IsPrefix(p, s) == Len(p) <= Len(s) /\ SubSeq(s, 1, Len(p)) = p

\* Python's `sub in text` for sequences of characters
Contains(sub, text) ==
    \E i \in 0..(Len(text) - Len(sub)) : SubSeq(text, i + 1, i + Len(sub)) = sub

AllIn(s, C) == \A i \in 1..Len(s) : s[i] \in C
NoneIn(s, C) == \A i \in 1..Len(s) : s[i] \notin C

-----------------------------------------------------------------------------
(* RTSPService: URL validation *)

Digits == {"0", "1", "2", "3", "4", "5", "6", "7", "8", "9"}

RtspScheme == <<"r", "t", "s", "p", ":", "/", "/">>

\* (/.*)?$
PathPart(t) == t = <<>> \/ t[1] = "/"

\* (?::(\d{1,5}))?(/.*)?$
PortPathPart(t) ==
    \/ PathPart(t)
    \/ /\ Len(t) >= 2
       /\ t[1] = ":"
       /\ \E n \in 1..5 :
            /\ n + 1 <= Len(t)
            /\ AllIn(SubSeq(t, 2, n + 1), Digits)
            /\ PathPart(SubSeq(t, n + 2, Len(t)))

\* ([^:/]+)(?::(\d{1,5}))?(/.*)?$
HostPart(r) ==
    \E i \in 1..Len(r) :
        /\ NoneIn(SubSeq(r, 1, i), {":", "/"})
        /\ PortPathPart(SubSeq(r, i + 1, Len(r)))

\* (?:([^:]+):([^@]+)@)? followed by the host part
CredentialsPart(r) ==
    \E i \in 1..Len(r) : \E j \in (i + 2)..Len(r) :
        /\ NoneIn(SubSeq(r, 1, i), {":"})
        /\ r[i + 1] = ":"
        /\ j - 1 >= i + 2
        /\ NoneIn(SubSeq(r, i + 2, j - 1), {"@"})
        /\ r[j] = "@"
        /\ HostPart(SubSeq(r, j + 1, Len(r)))

\* RTSP_URL_PATTERN.match(url): rtsp://[user:pass@]host[:port][/path]
RTSP_URL_PATTERN(url) ==
    /\ IsPrefix(RtspScheme, url)
    /\ LET r == SubSeq(url, Len(RtspScheme) + 1, Len(url))
       IN  HostPart(r) \/ CredentialsPart(r)

\* A validation that lets every URL through
validate_url_format_any(url) == TRUE

validate_url_format(url) == RTSP_URL_PATTERN(url)

\* The URLs a connect request is sent with
UrlCamera == <<"r", "t", "s", "p", ":", "/", "/", "c", ":", "5", "/", "l">>
UrlNoScheme == <<"h", "t", "t", "p", ":", "/", "/", "c">>
UrlBadPort == <<"r", "t", "s", "p", ":", "/", "/", "c", ":", "x">>
Urls == {UrlCamera, UrlNoScheme, UrlBadPort}
NoUrl == <<>>

\* Credentials: a user name and a password, each one token of a URL
Username == <<"admin">>
Password == <<"secret">>

\* A URL with the credentials embedded, which RTSP_URL_PATTERN accepts
UrlWithCredentials == RtspScheme \o Username \o <<":">> \o Password \o <<"@", "c">>

\* The username and password fields of a connect request; <<>> is None
NoCredentials == [username |-> <<>>, password |-> <<>>]
Credentials ==
    {NoCredentials,
     [username |-> Username, password |-> <<>>],
     [username |-> Username, password |-> Password]}

\* url.split('://', 1) of a URL that holds "://"
Split(url) ==
    LET i == Min({k \in 1..(Len(url) - 2) : SubSeq(url, k, k + 2) = <<":", "/", "/">>})
    IN  [protocol |-> SubSeq(url, 1, i - 1), rest |-> SubSeq(url, i + 3, Len(url))]

\* The URL handed to ffprobe and ffmpeg: test_connection,
\* probe_stream_metadata and spawn_process each compose it the same way
test_url(url, username, password) ==
    IF username # <<>> /\ password # <<>>
        THEN LET parts == Split(url)
             IN  parts.protocol \o <<":", "/", "/">> \o username \o <<":">>
                    \o password \o <<"@">> \o parts.rest
        ELSE url

-----------------------------------------------------------------------------
(* core/exceptions.py: the exception classes and the route's status mapping *)

\* The direct base class of every exception class the services raise.
\* Classes outside the hierarchy (pydantic's ValidationError, OSError,
\* KeyError) derive from Exception.
BaseClass(c) ==
    CASE c = "AuthenticationError" -> "RTSPAuthenticationError"
      [] c = "RTSPAuthenticationError" -> "RTSPConnectionError"
      [] c = "TimeoutError" -> "RTSPConnectionError"
      [] c = "RTSPConnectionError" -> "TimelapserBaseException"
      [] c = "UnsupportedCodecError" -> "TimelapserBaseException"
      [] c = "ValidationError" -> "TimelapserBaseException"
      [] c = "ConnectionLimitError" -> "TimelapserBaseException"
      [] c = "RTSPTimeoutError" -> "RTSPConnectionError"
      [] c = "RTSPUnreachableError" -> "RTSPConnectionError"
      [] c = "SessionNotFoundError" -> "TimelapserBaseException"
      [] c = "FFmpegError" -> "TimelapserBaseException"
      [] c = "HLSError" -> "TimelapserBaseException"
      [] c = "RateLimitError" -> "TimelapserBaseException"
      [] c = "TimelapserBaseException" -> "Exception"
      [] OTHER -> "Exception"

RECURSIVE IsInstance(_, _)
IsInstance(c, base) ==
    \/ c = base
    \/ c # "Exception" /\ IsInstance(BaseClass(c), base)

\* The except clauses with the base class RTSPConnectionError tested first
ConnectStatus_base_first(exc) ==
    CASE IsInstance(exc, "ValidationError") -> 400
      [] IsInstance(exc, "RTSPConnectionError") -> 503
      [] IsInstance(exc, "AuthenticationError") -> 401
      [] IsInstance(exc, "TimeoutError") -> 408
      [] IsInstance(exc, "UnsupportedCodecError") -> 415
      [] IsInstance(exc, "ConnectionLimitError") -> 429
      [] OTHER -> 500

\* connect_camera's except clauses, in the order they are written
ConnectStatus(exc) ==
    CASE IsInstance(exc, "ValidationError") -> 400
      [] IsInstance(exc, "AuthenticationError") -> 401
      [] IsInstance(exc, "TimeoutError") -> 408
      [] IsInstance(exc, "UnsupportedCodecError") -> 415
      [] IsInstance(exc, "ConnectionLimitError") -> 429
      [] IsInstance(exc, "RTSPConnectionError") -> 503
      [] OTHER -> 500

NoExc == "None"

\* api/dependencies.py exception_handler: error_mappings.get(type(exc), ...)
\* looks the class of the exception up by identity, so a subclass of a
\* listed class is not found; what is not a TimelapserBaseException is
\* answered 500
exception_handler(exc) ==
    IF ~IsInstance(exc, "TimelapserBaseException") THEN 500
    ELSE CASE exc = "ValidationError" -> 400
           [] exc = "RTSPAuthenticationError" -> 401
           [] exc = "RTSPTimeoutError" -> 408
           [] exc = "UnsupportedCodecError" -> 415
           [] exc = "ConnectionLimitError" -> 429
           [] exc = "RTSPUnreachableError" -> 503
           [] exc = "SessionNotFoundError" -> 404
           [] exc = "FFmpegError" -> 500
           [] exc = "HLSError" -> 500
           [] exc = "RateLimitError" -> 429
           [] OTHER -> 500

-----------------------------------------------------------------------------
(* RTSPService.test_connection: what the ffprobe run can come back with *)

Phrases == {"401", "Unauthorized", "Connection refused", "No route to host",
            "Connection timed out"}

CodecNames == {"h264", "hevc", "h265", "HEVC", "vp9", "mjpeg", ""}

\* str.lower() on the codec names ffprobe prints
Lower(s) == IF s = "HEVC" THEN "hevc" ELSE s

SUPPORTED_CODECS == {"h264", "hevc", "h265"}

\* kind "timeout": wait_for ran out; "oserror": the subprocess could not be
\* started or its output not decoded; "exit": ffprobe ended with returncode.
\* stderr is the set of the phrases the diagnostic text contains.
TestOutcomes ==
    {[kind |-> "timeout", returncode |-> 0, stdout |-> "", stderr |-> {}],
     [kind |-> "oserror", returncode |-> 0, stdout |-> "", stderr |-> {}]}
    \cup {[kind |-> "exit", returncode |-> 1, stdout |-> "", stderr |-> e] :
            e \in {x \in SUBSET Phrases : Cardinality(x) <= 2}}
    \cup {[kind |-> "exit", returncode |-> 0, stdout |-> c, stderr |-> {}] :
            c \in CodecNames}

\* test_connection that returns the detected name without renaming hevc
test_connection_unnormalised(o) ==
    IF o.kind = "timeout" THEN [exc |-> "TimeoutError", codec |-> ""]
    ELSE IF o.kind = "oserror" THEN [exc |-> "RTSPConnectionError", codec |-> ""]
    ELSE IF o.returncode # 0 THEN
        IF "401" \in o.stderr \/ "Unauthorized" \in o.stderr
            THEN [exc |-> "AuthenticationError", codec |-> ""]
        ELSE IF "Connection refused" \in o.stderr \/ "No route to host" \in o.stderr
            THEN [exc |-> "RTSPConnectionError", codec |-> ""]
        ELSE IF "Connection timed out" \in o.stderr
            THEN [exc |-> "TimeoutError", codec |-> ""]
        ELSE [exc |-> "RTSPConnectionError", codec |-> ""]
    ELSE LET codec == Lower(o.stdout)
         IN  IF codec \notin SUPPORTED_CODECS
                 THEN [exc |-> "UnsupportedCodecError", codec |-> codec]
             ELSE [exc |-> NoExc, codec |-> codec]

\* test_connection with the timed-out rule tested before the others
test_connection_timeout_first(o) ==
    IF o.kind = "timeout" THEN [exc |-> "TimeoutError", codec |-> ""]
    ELSE IF o.kind = "oserror" THEN [exc |-> "RTSPConnectionError", codec |-> ""]
    ELSE IF o.returncode # 0 THEN
        IF "Connection timed out" \in o.stderr
            THEN [exc |-> "TimeoutError", codec |-> ""]
        ELSE IF "401" \in o.stderr \/ "Unauthorized" \in o.stderr
            THEN [exc |-> "AuthenticationError", codec |-> ""]
        ELSE [exc |-> "RTSPConnectionError", codec |-> ""]
    ELSE LET codec == Lower(o.stdout)
         IN  IF codec \notin SUPPORTED_CODECS
                 THEN [exc |-> "UnsupportedCodecError", codec |-> codec]
             ELSE [exc |-> NoExc, codec |-> IF codec = "hevc" THEN "h265" ELSE codec]

\* The part of test_connection after the subprocess has come back:
\* the exception it raises (NoExc for none) and the codec it returns.
test_connection(o) ==
    IF o.kind = "timeout" THEN [exc |-> "TimeoutError", codec |-> ""]
    ELSE IF o.kind = "oserror" THEN [exc |-> "RTSPConnectionError", codec |-> ""]
    ELSE IF o.returncode # 0 THEN
        IF "401" \in o.stderr \/ "Unauthorized" \in o.stderr
            THEN [exc |-> "AuthenticationError", codec |-> ""]
        ELSE IF "Connection refused" \in o.stderr \/ "No route to host" \in o.stderr
            THEN [exc |-> "RTSPConnectionError", codec |-> ""]
        ELSE IF "Connection timed out" \in o.stderr
            THEN [exc |-> "TimeoutError", codec |-> ""]
        ELSE [exc |-> "RTSPConnectionError", codec |-> ""]
    ELSE LET codec == Lower(o.stdout)
         IN  IF codec \notin SUPPORTED_CODECS
                 THEN [exc |-> "UnsupportedCodecError", codec |-> codec]
             ELSE [exc |-> NoExc, codec |-> IF codec = "hevc" THEN "h265" ELSE codec]

\* test_connection that raises on timeout without process.kill()
prober_after_test_unkilled(o) ==
    IF o.kind = "timeout" THEN "running"
    ELSE IF o.kind = "oserror" THEN "none" ELSE "exited"

\* The ffprobe subprocess when test_connection returns or raises: never
\* started, ended on its own, or killed after wait_for ran out
prober_after_test(o) ==
    IF o.kind = "timeout" THEN "killed"
    ELSE IF o.kind = "oserror" THEN "none" ELSE "exited"

-----------------------------------------------------------------------------
(* RTSPService.probe_stream_metadata *)

DefaultMetadata == [resolution |-> "unknown", codec |-> "h264", fps |-> 30]

\* dict.get(key, default) on a JSON object: a record of values and the set
\* of the keys that are present
Get(obj, key, default) == IF key \in obj.keys THEN obj[key] ELSE default

\* Python's round(num / den) for den # 0: nearest integer, ties to even
Round(num, den) ==
    LET n == IF den < 0 THEN 0 - num ELSE num
        d == IF den < 0 THEN 0 - den ELSE den
        q == n \div d
        r == n - q * d
    IN  IF 2 * r < d THEN q
        ELSE IF 2 * r > d THEN q + 1
        ELSE IF q % 2 = 0 THEN q ELSE q + 1

\* r_frame_rate: the parts of the text split at "/", and whether int() parses them
Rate(parts) == [parts |-> parts, numeric |-> TRUE]
NotARate == [parts |-> <<0, 0>>, numeric |-> FALSE]

AllKeys == {"width", "height", "codec_name", "r_frame_rate"}

Stream(keys, width, height, codec_name, r_frame_rate) ==
    [keys |-> keys, width |-> width, height |-> height,
     codec_name |-> codec_name, r_frame_rate |-> r_frame_rate]

\* The stream objects ffprobe's JSON can hold
Streams ==
    {Stream(AllKeys, 1920, 1080, "HEVC", Rate(<<30, 1>>)),
     Stream(AllKeys, 1920, 1080, "hevc", Rate(<<30000, 1001>>)),
     Stream(AllKeys, 0, 1080, "h264", Rate(<<30, 1>>)),
     Stream(AllKeys, 1920, 0, "h264", Rate(<<0, 0>>)),
     Stream(AllKeys, 0, 0, "h264", Rate(<<30>>)),
     Stream(AllKeys, 0, 0, "h264", NotARate),
     Stream(AllKeys, 1920, 1080, "h264", Rate(<<0, 1>>)),
     Stream(AllKeys, 1920, 1080, "h264", Rate(<<120, 1>>)),
     Stream(AllKeys, 1920, 1080, "mjpeg", Rate(<<30, 1>>)),
     Stream({"codec_name"}, 0, 0, "h264", NotARate),
     Stream({}, 0, 0, "", NotARate)}

Json(keys, streams) == [keys |-> keys, streams |-> streams]

\* kind "timeout": wait_for ran out; "oserror": the subprocess could not be
\* started; "exit": ffprobe ended; parsed says whether json.loads accepts
\* stdout and json is the object it returns.
MetadataOutcomes ==
    {[kind |-> "timeout", returncode |-> 0, parsed |-> FALSE, json |-> Json({}, <<>>)],
     [kind |-> "oserror", returncode |-> 0, parsed |-> FALSE, json |-> Json({}, <<>>)],
     [kind |-> "exit", returncode |-> 1, parsed |-> FALSE, json |-> Json({}, <<>>)],
     [kind |-> "exit", returncode |-> 0, parsed |-> FALSE, json |-> Json({}, <<>>)],
     [kind |-> "exit", returncode |-> 0, parsed |-> TRUE, json |-> Json({}, <<>>)],
     [kind |-> "exit", returncode |-> 0, parsed |-> TRUE, json |-> Json({"streams"}, <<>>)]}
    \cup {[kind |-> "exit", returncode |-> 0, parsed |-> TRUE,
           json |-> Json({"streams"}, <<s>>)] : s \in Streams}

\* fps from r_frame_rate; the bare except turns every failure into 30
ParseFps(rate) ==
    IF ~rate.numeric \/ Len(rate.parts) # 2 THEN 30
    ELSE IF rate.parts[2] = 0 THEN 30
    ELSE Round(rate.parts[1], rate.parts[2])

probe_stream_metadata(o) ==
    IF o.kind # "exit" THEN DefaultMetadata
    ELSE IF o.returncode # 0 THEN DefaultMetadata
    ELSE IF ~o.parsed THEN DefaultMetadata
    ELSE LET streams == Get(o.json, "streams", <<Stream({}, 0, 0, "", NotARate)>>)
         IN  IF Len(streams) = 0 THEN DefaultMetadata
             ELSE LET stream == streams[1]
                      width == Get(stream, "width", 0)
                      height == Get(stream, "height", 0)
                      name == Lower(Get(stream, "codec_name", "h264"))
                  IN  [resolution |-> IF width # 0 /\ height # 0
                                          THEN ToString(width) \o "x" \o ToString(height)
                                          ELSE "unknown",
                       codec |-> IF name = "hevc" THEN "h265" ELSE name,
                       fps |-> ParseFps(Get(stream, "r_frame_rate", Rate(<<30, 1>>)))]

\* The ffprobe subprocess when probe_stream_metadata returns: never started,
\* ended on its own, or still running, because the TimeoutError of wait_for
\* goes to `except Exception` like any other and nothing kills the process
prober_after_metadata(o) ==
    IF o.kind = "timeout" THEN "running"
    ELSE IF o.kind = "oserror" THEN "none" ELSE "exited"

\* models/connection.py StreamMetadata: the field constraints pydantic enforces
StreamMetadataValid(m) ==
    /\ m.codec \in {"h264", "h265"}
    /\ m.fps >= 1
    /\ m.fps <= 60


-----------------------------------------------------------------------------
(* The state the services and the operating system share, as one record, so *)
(* that a method is an operator from state to state and calls compose.     *)
(* exc is the exception a call has raised and nothing has caught yet: the  *)
(* statements after the raise are skipped.                                 *)

World ==
    [sessions |-> active_sessions, processes |-> active_processes,
     running |-> running, fs |-> fs, exc |-> NoExc]

Raise(w, e) == [w EXCEPT !.exc = e]

\* File names are sequences of tokens: ".", "/", "\\" or a run of other characters
PlaylistFile == <<"playlist", ".", "m3u8">>
SegmentFile == <<"segment_000", ".", "ts">>
HlsFiles == {PlaylistFile, SegmentFile}

-----------------------------------------------------------------------------
(* FFmpegManager and FFmpegProcess *)

\* FFmpegProcess.is_running: Popen.poll() is None
is_running(w, id) == id \in w.running

\* FFmpegProcess.terminate: SIGTERM, wait up to 5 s, then SIGKILL and wait.
\* Either way the process has ended when terminate returns.
terminate(w, id) ==
    IF is_running(w, id) THEN [w EXCEPT !.running = @ \ {id}] ELSE w

\* FFmpegManager._cleanup_directory: shutil.rmtree when the directory exists
cleanup_directory(w, dir) ==
    IF dir \in DOMAIN w.fs
        THEN [w EXCEPT !.fs = Restrict(@, DOMAIN @ \ {dir})]
        ELSE w

\* FFmpegManager.create_session_directory: mkdir(parents=True, exist_ok=True)
create_session_directory(w, id) ==
    IF id \in DOMAIN w.fs THEN w ELSE [w EXCEPT !.fs = @ @@ (id :> {})]

\* FFmpegManager.spawn_process when Popen succeeds
spawn_process(w, id, output_dir) ==
    [w EXCEPT !.processes = (id :> [session_id |-> id, output_dir |-> output_dir]) @@ @,
              !.running = @ \cup {id}]

\* kill_process that stops the process and deletes the directory but keeps
\* the entry of active_processes
kill_process_keeps_entry(w, id) ==
    IF id \notin DOMAIN w.processes THEN w
    ELSE cleanup_directory(terminate(w, id), w.processes[id].output_dir)

\* FFmpegManager.kill_process
kill_process(w, id) ==
    IF id \notin DOMAIN w.processes THEN w
    ELSE LET ffmpeg_proc == w.processes[id]
             stopped == terminate(w, id)
             cleaned == cleanup_directory(stopped, ffmpeg_proc.output_dir)
         IN  [cleaned EXCEPT !.processes = Restrict(@, DOMAIN @ \ {id})]

\* is_session_active without the poll: an entry counts as active
manager_is_session_active_unpolled(w, id) == id \in DOMAIN w.processes

\* FFmpegManager.is_session_active
manager_is_session_active(w, id) ==
    IF id \notin DOMAIN w.processes THEN FALSE ELSE is_running(w, id)

-----------------------------------------------------------------------------
(* HLSSession and HLSService *)

HLSSession(session_id, url, output_dir, stream_metadata, created_at) ==
    [session_id |-> session_id, rtsp_url |-> url, output_dir |-> output_dir,
     stream_metadata |-> stream_metadata, created_at |-> created_at,
     last_activity |-> created_at]

\* Python's None where a session is expected
None ==
    [session_id |-> NoId, rtsp_url |-> NoUrl, output_dir |-> NoId,
     stream_metadata |-> DefaultMetadata, created_at |-> 0, last_activity |-> 0]

\* HLSService.get_session
get_session(w, id) == IF id \in DOMAIN w.sessions THEN w.sessions[id] ELSE None

\* A count of the sessions whose ffmpeg process is running
get_active_session_count_running(w) == Cardinality(DOMAIN w.sessions \cap w.running)

\* HLSService.get_active_session_count
get_active_session_count(w) == Cardinality(DOMAIN w.sessions)

\* HLSService.is_session_active
is_session_active(w, id) ==
    IF id \notin DOMAIN w.sessions THEN FALSE ELSE manager_is_session_active(w, id)

\* destroy_session that stops the process and forgets the `del`
remove_session_keeps_record(w, id) == w

\* `del self.active_sessions[session_id]`
remove_session(w, id) ==
    IF id \notin DOMAIN w.sessions THEN Raise(w, "KeyError")
    ELSE [w EXCEPT !.sessions = Restrict(@, DOMAIN @ \ {id})]

\* destroy_session without its membership guard
destroy_session_unguarded(w, id) == remove_session(kill_process(w, id), id)

\* HLSService.destroy_session
destroy_session(w, id) ==
    IF id \notin DOMAIN w.sessions THEN w
    ELSE remove_session(kill_process(w, id), id)

\* destroy_session for each id of a list, in order, up to the first that raises
RECURSIVE destroy_all(_, _)
destroy_all(w, ids) ==
    IF ids = <<>> \/ w.exc # NoExc THEN w
    ELSE destroy_all(destroy_session(w, Head(ids)), Tail(ids))

\* The ids of S in the order the dict holds them: insertion order, which is
\* the order in which uuid4 issued them
RECURSIVE InOrder(_)
InOrder(S) == IF S = {} THEN <<>> ELSE <<Min(S)>> \o InOrder(S \ {Min(S)})

\* The expiry test with >= in place of >
expired_at_timeout(session, current_time) ==
    current_time - session.last_activity >= session_timeout

\* The test of _cleanup_expired_sessions
expired(session, current_time) ==
    current_time - session.last_activity > session_timeout

\* The list _cleanup_expired_sessions collects
expired_sessions(w, current_time) ==
    {id \in DOMAIN w.sessions : expired(w.sessions[id], current_time)}

\* HLSService._cleanup_expired_sessions
cleanup_expired_sessions(w, current_time) ==
    destroy_all(w, InOrder(expired_sessions(w, current_time)))

\* The list _monitor_ffmpeg_processes collects
crashed_sessions(w) ==
    {id \in DOMAIN w.sessions : ~manager_is_session_active(w, id)}

\* HLSService._monitor_ffmpeg_processes
monitor_ffmpeg_processes(w) == destroy_all(w, InOrder(crashed_sessions(w)))

\* The body of the loop of _periodic_cleanup after the sleep: the second pass
\* is skipped when the first raises, and the loop catches the exception
periodic_cleanup(w, current_time) ==
    LET first == cleanup_expired_sessions(w, current_time)
        second == IF first.exc # NoExc THEN first ELSE monitor_ffmpeg_processes(first)
    IN  [second EXCEPT !.exc = NoExc]

\* An id generator that only avoids the ids registered at the moment
uuid4_unregistered ==
    IF Ids \ DOMAIN active_sessions = {} THEN {}
    ELSE {Min(Ids \ DOMAIN active_sessions)}

\* uuid4(): a value never returned before; which one is immaterial, the
\* model takes the least unused identifier
uuid4 == IF Ids \ issued = {} THEN {} ELSE {Min(Ids \ issued)}

\* What the operating system does to the calls of create_session: mkdir
\* raises (PermissionError, say), Popen raises (FileNotFoundError when
\* there is no ffmpeg), or both succeed
SpawnOutcomes == {"ok", "mkdir_fails", "popen_fails"}

\* create_session whose except clause re-raises without _cleanup_directory
create_session_keeps_directory(w, url, metadata_dict, session_id, os, t) ==
    IF os = "mkdir_fails"
        THEN [world |-> Raise(w, "PermissionError"), session_id |-> NoId]
    ELSE LET output_dir == session_id
             made == create_session_directory(w, session_id)
         IN  IF os = "popen_fails"
                 THEN [world |-> Raise(made, "FileNotFoundError"), session_id |-> NoId]
             ELSE LET spawned == spawn_process(made, session_id, output_dir)
                      session == HLSSession(session_id, url, output_dir,
                                            metadata_dict, t)
                  IN  [world |-> [spawned EXCEPT !.sessions =
                                      (session_id :> session) @@ @],
                       session_id |-> session_id]

\* HLSService.create_session from the return of probe_stream_metadata to its
\* end: the state it leaves (with the exception it raises) and the session id
create_session(w, url, metadata_dict, session_id, os, t) ==
    IF os = "mkdir_fails"
        THEN [world |-> Raise(w, "PermissionError"), session_id |-> NoId]
    ELSE LET output_dir == session_id
             made == create_session_directory(w, session_id)
         IN  IF os = "popen_fails"
                 THEN [world |-> Raise(cleanup_directory(made, output_dir),
                                       "FileNotFoundError"),
                       session_id |-> NoId]
             ELSE LET spawned == spawn_process(made, session_id, output_dir)
                      session == HLSSession(session_id, url, output_dir,
                                            metadata_dict, t)
                  IN  [world |-> [spawned EXCEPT !.sessions =
                                      (session_id :> session) @@ @],
                       session_id |-> session_id]

\* A served request that forgets to touch the session
update_activity_forgotten(w, id, t) == w

\* update_activity that restarts the session's clock altogether
update_activity_resets_created(w, id, t) ==
    [w EXCEPT !.sessions[id].last_activity = t, !.sessions[id].created_at = t]

\* HLSSession.update_activity
update_activity(w, id, t) == [w EXCEPT !.sessions[id].last_activity = t]

\* Path.exists() of output_dir / name
Exists(w, dir, name) == dir \in DOMAIN w.fs /\ name \in w.fs[dir]

-----------------------------------------------------------------------------
(* api/routes/camera.py: what each handler does to the state and answers *)

\* The admission test with > in place of >=
LimitReached_strict(w) == get_active_session_count(w) > max_concurrent_connections

\* The admission test of connect_camera
LimitReached(w) == get_active_session_count(w) >= max_concurrent_connections

\* connect_camera from the request to the first await of test_connection:
\* the exception raised and where the coroutine is afterwards
connect_camera(w, url) ==
    IF LimitReached(w) THEN [exc |-> "ConnectionLimitError", pc |-> "idle"]
    ELSE IF ~validate_url_format(url) THEN [exc |-> "ValidationError", pc |-> "idle"]
    ELSE [exc |-> NoExc, pc |-> "test_connection"]

\* One log entry that holds a URL: its level and the URL in its text
Entry(level, text) == [level |-> level, text |-> text]

\* The entries with a URL that a connect request writes up to the start of
\* the first ffprobe: connect_camera's "Received connect request for",
\* and in test_connection "Testing RTSP connection to" and the ffprobe
\* command line, whose last argument is test_url
connect_camera_log(w, url, username, password) ==
    <<Entry("INFO", url)>>
    \o IF LimitReached(w) \/ ~validate_url_format(url) THEN <<>>
       ELSE <<Entry("INFO", url),
              Entry("DEBUG", test_url(url, username, password))>>

\* The entries with a URL that create_session writes after the probes:
\* "Creating HLS session ... for" once the directory is made, and in
\* spawn_process the ffmpeg command line, whose -i argument is the URL
\* with the credentials
create_session_log(url, username, password, os) ==
    IF os = "mkdir_fails" THEN <<>>
    ELSE <<Entry("INFO", url),
           Entry("DEBUG", test_url(url, username, password))>>

\* get_status
get_status(w, id) == IF get_session(w, id) = None THEN 404 ELSE 200

\* get_playlist
get_playlist(w, id, t) ==
    LET session == get_session(w, id)
    IN  IF session = None \/ ~Exists(w, session.output_dir, PlaylistFile)
            THEN [world |-> w, status |-> 404]
            ELSE [world |-> update_activity(w, id, t), status |-> 200]

\* HLSSession.get_segment_path: output_dir / segment_file, not normalised
session_get_segment_path(session, segment_file) ==
    [dir |-> session.output_dir, rel |-> segment_file]

\* The components of a relative path: the runs of tokens between "/" tokens
RECURSIVE Components(_)
Components(rel) ==
    IF rel = <<>> THEN <<>>
    ELSE LET cut == IF \E i \in 1..Len(rel) : rel[i] = "/"
                        THEN Min({i \in 1..Len(rel) : rel[i] = "/"})
                        ELSE Len(rel) + 1
             first == SubSeq(rel, 1, cut - 1)
             rest == SubSeq(rel, cut + 1, Len(rel))
         IN  IF first = <<>> THEN Components(rest) ELSE <<first>> \o Components(rest)

\* Path resolution by the operating system below hls_output_dir: ".." leaves
\* the directory, "." stays, any other component descends
RECURSIVE Walk(_, _)
Walk(stack, comps) ==
    IF comps = <<>> THEN stack
    ELSE IF Head(comps) = <<".", ".">>
        THEN Walk(IF stack = <<>> THEN stack ELSE SubSeq(stack, 1, Len(stack) - 1),
                  Tail(comps))
    ELSE IF Head(comps) = <<".">> THEN Walk(stack, Tail(comps))
    ELSE Walk(Append(stack, Head(comps)), Tail(comps))

\* Where a path built by get_segment_path ends up, as directory names below
\* hls_output_dir followed by the file name
Located(path) == Walk(<<<<ToString(path.dir)>>>>, Components(path.rel))

\* Path.exists() of a path built by get_segment_path: session directories
\* hold files only, so a file is named by a directory and one component
PathExists(w, path) ==
    LET at == Located(path)
    IN  /\ Len(at) = 2
        /\ \E dir \in DOMAIN w.fs : at[1] = <<ToString(dir)>> /\ at[2] \in w.fs[dir]

\* get_segment without its filename check
Traversal_off(segment_file) == FALSE

\* The traversal guard of get_segment
Traversal(segment_file) ==
    \/ Contains(<<".", ".">>, segment_file)
    \/ Contains(<<"/">>, segment_file)
    \/ Contains(<<"\\">>, segment_file)

\* The segment file of the session directory `dir`, named from a sibling
SiblingSegment(dir) == <<".", ".", "/", ToString(dir), "/">> \o SegmentFile

\* The segment names requests ask for
SegmentNames ==
    {SegmentFile, <<"segment_001", ".", "ts">>, <<".", ".", "/", "x">>,
     <<"x", "\\", "y">>}
    \cup {SiblingSegment(dir) : dir \in Ids}

\* get_segment
get_segment(w, id, segment_file, t) ==
    IF Traversal(segment_file) THEN [world |-> w, status |-> 400]
    ELSE LET session == get_session(w, id)
         IN  IF \/ session = None
                \/ ~PathExists(w, session_get_segment_path(session, segment_file))
                 THEN [world |-> w, status |-> 404]
                 ELSE [world |-> update_activity(w, id, t), status |-> 200]

\* disconnect_camera without its lookup
disconnect_camera_unchecked(w, id) == 200

\* disconnect_camera: the answer to a request for id
disconnect_camera(w, id) == IF get_session(w, id) = None THEN 404 ELSE 200

-----------------------------------------------------------------------------
(* Teardown when the operating system does not cooperate.  One outcome says *)
(* what happens to the calls of one kill_process: whether Popen.terminate()  *)
(* raises, how many seconds after SIGTERM ffmpeg exits, whether Popen.kill() *)
(* raises, whether shutil.rmtree raises.                                     *)

TeardownProduct ==
    [sigterm : {"delivered", "raises"}, exit_after : {1, GracePeriod + 4},
     sigkill : {"delivered", "raises"}, rmtree : {"ok", "raises"}]

\* One outcome for each way kill_process can go: fields that are never
\* consulted are left at their first value
TeardownOutcomes ==
    {os \in TeardownProduct :
        /\ os.sigterm = "raises" => os.exit_after = 1 /\ os.sigkill = "delivered"
        /\ os.exit_after <= GracePeriod => os.sigkill = "delivered"
        /\ os.sigkill = "raises" => os.rmtree = "ok"}

Benign == [sigterm |-> "delivered", exit_after |-> 1, sigkill |-> "delivered",
           rmtree |-> "ok"]

\* terminate that sends SIGKILL at once, without SIGTERM and the wait
terminate_calls_no_grace(w, id, os) ==
    IF ~is_running(w, id) THEN [signals |-> <<>>, waited |-> 0]
    ELSE [signals |-> <<"SIGKILL">>, waited |-> 0]

\* FFmpegProcess.terminate: the signals it asks for, in order, and the
\* seconds it spends in wait(timeout=5)
terminate_calls(w, id, os) ==
    IF ~is_running(w, id) THEN [signals |-> <<>>, waited |-> 0]
    ELSE IF os.sigterm = "raises" THEN [signals |-> <<"SIGTERM">>, waited |-> 0]
    ELSE IF os.exit_after <= GracePeriod
        THEN [signals |-> <<"SIGTERM">>, waited |-> os.exit_after]
    ELSE [signals |-> <<"SIGTERM", "SIGKILL">>, waited |-> GracePeriod]

\* FFmpegProcess.terminate: an exception of Popen.terminate() or of wait() is
\* logged by `except Exception`; Popen.kill() runs inside the handler of
\* TimeoutExpired, where no clause catches what it raises
terminate_os(w, id, os) ==
    IF ~is_running(w, id) THEN w
    ELSE IF os.sigterm = "raises" THEN w
    ELSE IF os.exit_after <= GracePeriod THEN [w EXCEPT !.running = @ \ {id}]
    ELSE IF os.sigkill = "raises" THEN Raise(w, "PermissionError")
    ELSE [w EXCEPT !.running = @ \ {id}]

\* FFmpegManager._cleanup_directory: what rmtree raises is logged
cleanup_directory_os(w, dir, os) ==
    IF dir \in DOMAIN w.fs /\ os.rmtree = "ok"
        THEN [w EXCEPT !.fs = Restrict(@, DOMAIN @ \ {dir})]
        ELSE w

\* FFmpegManager.kill_process
kill_process_os(w, id, os) ==
    IF id \notin DOMAIN w.processes THEN w
    ELSE LET ffmpeg_proc == w.processes[id]
             stopped == terminate_os(w, id, os)
         IN  IF stopped.exc # NoExc THEN stopped
             ELSE LET cleaned == cleanup_directory_os(stopped, ffmpeg_proc.output_dir, os)
                  IN  [cleaned EXCEPT !.processes = Restrict(@, DOMAIN @ \ {id})]

\* HLSService.destroy_session
destroy_session_os(w, id, os) ==
    IF id \notin DOMAIN w.sessions THEN w
    ELSE LET killed == kill_process_os(w, id, os)
         IN  IF killed.exc # NoExc THEN killed ELSE remove_session(killed, id)

\* The for loops of the reaper: destroy_session for each id of a list, in
\* order; the first exception ends the loop.  failed is the id it was raised for.
RECURSIVE destroy_each(_, _, _)
destroy_each(r, ids, outcomes) ==
    IF ids = <<>> \/ r.world.exc # NoExc THEN r
    ELSE LET w == destroy_session_os(r.world, Head(ids), outcomes[Head(ids)])
         IN  destroy_each([world |-> w,
                           failed |-> IF w.exc # NoExc THEN Head(ids) ELSE NoId],
                          Tail(ids), outcomes)

\* The body of the loop of _periodic_cleanup after the sleep: the world it
\* leaves, the exception the loop's `except Exception` logged and the id whose
\* destroy raised it
periodic_cleanup_os(w, current_time, outcomes) ==
    LET first == destroy_each([world |-> w, failed |-> NoId],
                              InOrder(expired_sessions(w, current_time)), outcomes)
        second == IF first.world.exc # NoExc THEN first
                  ELSE destroy_each(first, InOrder(crashed_sessions(first.world)),
                                    outcomes)
    IN  [world |-> [second.world EXCEPT !.exc = NoExc],
         exc |-> second.world.exc, failed |-> second.failed]

\* _periodic_cleanup with the try around the loop instead of inside it: an
\* exception of a sweep ends the coroutine and the task is done
task_after_sweep_uncaught(exc) == IF exc # NoExc THEN "done" ELSE "pending"

\* The reaper's task after one pass of the loop of _periodic_cleanup that
\* raised exc: `except Exception` is inside `while True`, so the coroutine
\* goes back to the sleep
task_after_sweep(exc) == "pending"

\* HLSService.cleanup_all
cleanup_all(w) == destroy_all(w, InOrder(DOMAIN w.sessions))

-----------------------------------------------------------------------------
(* api/middleware.py: the rate limiter in front of the routes *)

\* request.client is None
NoClient == ""

\* The requests the middleware sees: method, path and the client's address
Methods == {"POST", "GET"}
Paths == {"/api/camera/connect", "/api/camera/disconnect", "/api/camera/status"}
Hosts == {"10.0.0.1"}
Requests == [method : Methods, path : Paths, client : Hosts \cup {NoClient}]

\* The key of a request: request.client.host if request.client else "unknown"
client_ip(request) == IF request.client # NoClient THEN request.client ELSE "unknown"
Keys == {client_ip(request) : request \in Requests}

\* RateLimiter.__init__; a key the defaultdict has not seen has an empty deque
RateLimiter(requests_per_minute) ==
    [requests_per_minute |-> requests_per_minute, requests |-> [key \in Keys |-> <<>>]]

\* The while loop of is_allowed: popleft while the oldest entry is before
\* the cutoff
RECURSIVE PopOld(_, _)
PopOld(requests, cutoff_time) ==
    IF requests # <<>> /\ Head(requests) < cutoff_time
        THEN PopOld(Tail(requests), cutoff_time)
        ELSE requests

\* is_allowed that admits while the count is at most requests_per_minute
is_allowed_one_more(limiter, key, current_time) ==
    LET cutoff_time == current_time - window_seconds
        kept == PopOld(limiter.requests[key], cutoff_time)
        request_count == Len(kept)
    IN  IF request_count <= limiter.requests_per_minute
            THEN [limiter |-> [limiter EXCEPT !.requests[key] = Append(kept, current_time)],
                  allowed |-> TRUE,
                  remaining |-> limiter.requests_per_minute - request_count - 1]
            ELSE [limiter |-> [limiter EXCEPT !.requests[key] = kept],
                  allowed |-> FALSE, remaining |-> 0]

\* RateLimiter.is_allowed at time.time() = current_time: the limiter
\* afterwards and the pair it returns
is_allowed(limiter, key, current_time) ==
    LET cutoff_time == current_time - window_seconds
        kept == PopOld(limiter.requests[key], cutoff_time)
        request_count == Len(kept)
    IN  IF request_count < limiter.requests_per_minute
            THEN [limiter |-> [limiter EXCEPT !.requests[key] = Append(kept, current_time)],
                  allowed |-> TRUE,
                  remaining |-> limiter.requests_per_minute - request_count - 1]
            ELSE [limiter |-> [limiter EXCEPT !.requests[key] = kept],
                  allowed |-> FALSE, remaining |-> 0]

\* RateLimitMiddleware.__init__
RateLimitMiddleware(connect_limit, disconnect_limit) ==
    [connect_limiter |-> RateLimiter(connect_limit),
     disconnect_limiter |-> RateLimiter(disconnect_limit)]

\* The endpoint_name dispatch gives a request, "" where it leaves limiter
\* at None
NoEndpoint == ""
Endpoints == {"connect", "disconnect"}
endpoint_name(request) ==
    IF request.path = "/api/camera/connect" /\ request.method = "POST" THEN "connect"
    ELSE IF request.path = "/api/camera/disconnect" /\ request.method = "POST"
        THEN "disconnect"
    ELSE NoEndpoint

\* The limiter of an endpoint
LimiterOf(mw, endpoint) ==
    IF endpoint = "connect" THEN mw.connect_limiter ELSE mw.disconnect_limiter

\* RateLimitMiddleware.dispatch: the middleware afterwards, and either the
\* 429 it raises or next = TRUE when it goes on to call_next
dispatch(mw, request, current_time) ==
    LET endpoint == endpoint_name(request)
    IN  IF endpoint = NoEndpoint
            THEN [middleware |-> mw, status |-> 0, next |-> TRUE, remaining |-> 0]
        ELSE LET r == is_allowed(LimiterOf(mw, endpoint), client_ip(request), current_time)
                 after == IF endpoint = "connect"
                              THEN [mw EXCEPT !.connect_limiter = r.limiter]
                              ELSE [mw EXCEPT !.disconnect_limiter = r.limiter]
             IN  IF ~r.allowed
                     THEN [middleware |-> after, status |-> 429, next |-> FALSE,
                           remaining |-> 0]
                     ELSE [middleware |-> after, status |-> 0, next |-> TRUE,
                           remaining |-> r.remaining]

-----------------------------------------------------------------------------
(* The state machine.  A request that is answered without changing anything *)
(* is a stuttering step; its answer is the value of the handler's operator. *)

Label(op, id, status, exc) ==
    [op |-> op, id |-> id, status |-> status, exc |-> exc, log |-> <<0, 0>>,
     prober |-> "none", signals |-> <<>>]

\* The world after a step
SetWorld(w) ==
    /\ active_sessions' = w.sessions
    /\ active_processes' = w.processes
    /\ running' = w.running
    /\ fs' = w.fs
    /\ destroyed' = destroyed \cup (DOMAIN active_sessions \ DOMAIN w.sessions)

\* The services after startup_event: nothing registered, the reaper asleep
InitServices ==
    /\ now = 0
    /\ active_sessions = <<>>
    /\ active_processes = <<>>
    /\ running = {}
    /\ fs = <<>>
    /\ pc = [h \in Handlers |-> "idle"]
    /\ rtsp_url = [h \in Handlers |-> NoUrl]
    /\ detected_codec = [h \in Handlers |-> ""]
    /\ teardown = NoId
    /\ reaper_wake = hls_cleanup_interval
    /\ issued = {}
    /\ destroyed = {}
    /\ cleanup_task = "pending"
    /\ serving = TRUE
    /\ admitted = [endpoint \in Endpoints |-> [key \in Keys |-> <<>>]]
    /\ last = Label("startup", NoId, 0, NoExc)

\* The state after startup_event, the middleware built by main.py from the
\* settings.  The actions of the services are the requests the middleware
\* has passed on to the routes.
Init ==
    /\ InitServices
    /\ middleware = RateLimitMiddleware(rate_limit_connect, rate_limit_disconnect)

\* connect_camera from the request to the first await of test_connection
ConnectRequest(h, url) ==
    /\ serving
    /\ teardown = NoId
    /\ pc[h] = "idle"
    /\ LET r == connect_camera(World, url)
       IN  IF r.exc # NoExc
               THEN UNCHANGED vars
               ELSE /\ pc' = [pc EXCEPT ![h] = r.pc]
                    /\ rtsp_url' = [rtsp_url EXCEPT ![h] = url]
                    /\ UNCHANGED detected_codec
                    /\ last' = Label("await", NoId, 0, NoExc)
                    /\ UNCHANGED <<now, active_sessions, active_processes, running,
                                   fs, teardown, reaper_wake, cleanup_task, serving,
                                   middleware, admitted, issued, destroyed>>

\* test_connection resumes with the prober's outcome; on success
\* create_session goes on to the await of probe_stream_metadata
TestConnectionDone(h, o) ==
    /\ teardown = NoId
    /\ pc[h] = "test_connection"
    /\ UNCHANGED <<now, active_sessions, active_processes, running, fs,
                   teardown, reaper_wake, cleanup_task, serving,
                   middleware, admitted, issued, destroyed>>
    /\ LET r == test_connection(o)
       IN  IF r.exc # NoExc
               THEN /\ pc' = [pc EXCEPT ![h] = "idle"]
                    /\ rtsp_url' = [rtsp_url EXCEPT ![h] = NoUrl]
                    /\ UNCHANGED detected_codec
                    /\ last' = [Label("connect", NoId, ConnectStatus(r.exc), r.exc)
                                    EXCEPT !.prober = prober_after_test(o)]
               ELSE /\ pc' = [pc EXCEPT ![h] = "probe_stream_metadata"]
                    /\ UNCHANGED rtsp_url
                    /\ detected_codec' = [detected_codec EXCEPT ![h] = r.codec]
                    /\ last' = Label("await", NoId, 0, NoExc)

\* probe_stream_metadata resumes; create_session runs to its end and
\* connect_camera answers
ProbeMetadataDone(h, o, os) ==
    /\ teardown = NoId
    /\ pc[h] = "probe_stream_metadata"
    /\ UNCHANGED <<now, teardown, reaper_wake, cleanup_task, serving, middleware, admitted>>
    /\ pc' = [pc EXCEPT ![h] = "idle"]
    /\ rtsp_url' = [rtsp_url EXCEPT ![h] = NoUrl]
    /\ detected_codec' = [detected_codec EXCEPT ![h] = ""]
    /\ LET metadata_dict == probe_stream_metadata(o)
       IN  IF ~StreamMetadataValid(metadata_dict)
               THEN /\ UNCHANGED <<active_sessions, active_processes, running, fs,
                                   issued, destroyed>>
                    /\ last' = [Label("connect", NoId,
                                       ConnectStatus("pydantic.ValidationError"),
                                       "pydantic.ValidationError")
                                    EXCEPT !.prober = prober_after_metadata(o)]
               ELSE \E session_id \in uuid4 :
                      LET r == create_session(World, rtsp_url[h], metadata_dict,
                                              session_id, os, now)
                      IN  /\ issued' = issued \cup {session_id}
                          /\ SetWorld(r.world)
                          /\ last' = [(IF r.world.exc = NoExc
                                          THEN Label("connect", r.session_id, 200, NoExc)
                                          ELSE Label("connect", NoId,
                                                     ConnectStatus(r.world.exc), r.world.exc))
                                        EXCEPT !.prober = prober_after_metadata(o)]

\* disconnect_camera up to the point where destroy_session has called
\* kill_process (hls_service.py line 187) and not yet removed the record
Disconnect(id) ==
    /\ serving
    /\ teardown = NoId
    /\ IF disconnect_camera(World, id) = 404
           THEN UNCHANGED vars
           ELSE /\ SetWorld(kill_process(World, id))
                /\ teardown' = id
                /\ last' = Label("kill_process", id, 0, NoExc)
                /\ UNCHANGED <<now, pc, rtsp_url, detected_codec, reaper_wake,
                               cleanup_task, serving, middleware, admitted, issued>>

\* destroy_session removes the record (line 190) and disconnect_camera answers
DisconnectDone ==
    /\ teardown # NoId
    /\ UNCHANGED <<now, pc, rtsp_url, detected_codec, reaper_wake, cleanup_task,
                   serving, middleware, admitted, issued>>
    /\ SetWorld(remove_session(World, teardown))
    /\ teardown' = NoId
    /\ last' = Label("disconnect", teardown, 200, NoExc)

\* HLSService.destroy_session called on its own, for any identifier
DestroySession(id) ==
    /\ teardown = NoId
    /\ LET w == destroy_session(World, id)
       IN  IF w = World
               THEN UNCHANGED vars
               ELSE /\ SetWorld(w)
                    /\ last' = Label("destroy", id, 0, w.exc)
                    /\ UNCHANGED <<now, pc, rtsp_url, detected_codec, teardown,
                                   reaper_wake, cleanup_task, serving, middleware, admitted, issued>>

\* get_status: reads only
GetStatus(id) ==
    /\ serving
    /\ teardown = NoId
    /\ get_status(World, id) \in {200, 404}
    /\ UNCHANGED vars

\* get_playlist
GetPlaylist(id) ==
    /\ serving
    /\ teardown = NoId
    /\ LET r == get_playlist(World, id, now)
       IN  IF r.status # 200
               THEN UNCHANGED vars
               ELSE /\ SetWorld(r.world)
                    /\ last' = Label("playlist", id, r.status, NoExc)
                    /\ UNCHANGED <<now, pc, rtsp_url, detected_codec, teardown,
                                   reaper_wake, cleanup_task, serving, middleware, admitted, issued>>

\* get_segment
GetSegment(id, segment_file) ==
    /\ serving
    /\ teardown = NoId
    /\ LET r == get_segment(World, id, segment_file, now)
       IN  IF r.status # 200
               THEN UNCHANGED vars
               ELSE /\ SetWorld(r.world)
                    /\ last' = Label("segment", id, r.status, NoExc)
                    /\ UNCHANGED <<now, pc, rtsp_url, detected_codec, teardown,
                                   reaper_wake, cleanup_task, serving, middleware, admitted, issued>>

\* One pass of the loop of _periodic_cleanup after its sleep has ended
Sweep ==
    /\ teardown = NoId
    /\ cleanup_task = "pending"
    /\ now >= reaper_wake
    /\ UNCHANGED <<now, pc, rtsp_url, detected_codec, teardown, issued, serving, middleware, admitted>>
    /\ SetWorld(periodic_cleanup(World, now))
    /\ reaper_wake' = now + hls_cleanup_interval
    /\ cleanup_task' = task_after_sweep(cleanup_expired_sessions(World, now).exc)
    /\ last' = [Label("sweep", NoId, 0, NoExc) EXCEPT !.log =
                    <<Cardinality(expired_sessions(World, now)),
                      Cardinality(crashed_sessions(cleanup_expired_sessions(World, now)))>>]

\* Time passes
Tick ==
    /\ \E t \in Instants : t > now /\ now' = t
    /\ UNCHANGED <<active_sessions, active_processes, running, fs, pc, rtsp_url, detected_codec,
                   teardown, reaper_wake, cleanup_task, serving,
                   middleware, admitted, issued, destroyed>>
    /\ last' = Label("env", NoId, 0, NoExc)

\* An ffmpeg process ends on its own or is killed from outside
FFmpegExit(id) ==
    /\ id \in running
    /\ running' = running \ {id}
    /\ UNCHANGED <<now, active_sessions, active_processes, fs, pc, rtsp_url, detected_codec,
                   teardown, reaper_wake, cleanup_task, serving,
                   middleware, admitted, issued, destroyed>>
    /\ last' = Label("env", NoId, 0, NoExc)

\* A running ffmpeg process writes a file into its output directory: the
\* first segment, and the playlist once a segment is complete
FFmpegWrite(id, file) ==
    /\ id \in running
    /\ id \in DOMAIN fs
    /\ file \notin fs[id]
    /\ file = PlaylistFile => SegmentFile \in fs[id]
    /\ fs' = [fs EXCEPT ![id] = @ \cup {file}]
    /\ UNCHANGED <<now, active_sessions, active_processes, running, pc, rtsp_url, detected_codec,
                   teardown, reaper_wake, cleanup_task, serving,
                   middleware, admitted, issued, destroyed>>
    /\ last' = Label("env", NoId, 0, NoExc)

Next ==
    \/ \E h \in Handlers, url \in Urls : ConnectRequest(h, url)
    \/ \E h \in Handlers, o \in TestOutcomes : TestConnectionDone(h, o)
    \/ \E h \in Handlers, o \in MetadataOutcomes, os \in SpawnOutcomes :
          ProbeMetadataDone(h, o, os)
    \/ \E id \in Ids : Disconnect(id)
    \/ DisconnectDone
    \/ \E id \in Ids : DestroySession(id)
    \/ \E id \in Ids : GetStatus(id)
    \/ \E id \in Ids : GetPlaylist(id)
    \/ \E id \in Ids, segment_file \in SegmentNames : GetSegment(id, segment_file)
    \/ Sweep
    \/ Tick
    \/ \E id \in Ids : FFmpegExit(id)
    \/ \E id \in Ids, file \in HlsFiles : FFmpegWrite(id, file)

Spec == Init /\ [][Next]_vars

-----------------------------------------------------------------------------
(* The same program on an operating system that can refuse signals and       *)
(* deletions.                                                                *)

\* disconnect_camera, the whole handler: destroy_session runs to its end
\* without a suspension point; an exception it raises leaves the handler
\* and is answered 500 by the application's exception handler
DisconnectOs(id, os) ==
    /\ serving
    /\ teardown = NoId
    /\ id \notin DOMAIN active_sessions => os = Benign
    /\ IF disconnect_camera(World, id) = 404
           THEN UNCHANGED vars
           ELSE LET w == destroy_session_os(World, id, os)
                IN  /\ SetWorld(w)
                    /\ UNCHANGED <<now, pc, rtsp_url, detected_codec, teardown,
                                   reaper_wake, cleanup_task, serving, middleware, admitted, issued>>
                    /\ last' = [Label("disconnect", id,
                                      IF w.exc # NoExc THEN 500 ELSE 200, w.exc)
                                    EXCEPT !.signals =
                                        terminate_calls(World, id, os).signals]

\* One pass of the loop of _periodic_cleanup after its sleep has ended
SweepOs(outcomes) ==
    /\ teardown = NoId
    /\ cleanup_task = "pending"
    /\ now >= reaper_wake
    /\ UNCHANGED <<now, pc, rtsp_url, detected_codec, teardown, issued, serving, middleware, admitted>>
    /\ LET r == periodic_cleanup_os(World, now, outcomes)
       IN  /\ SetWorld(r.world)
           /\ cleanup_task' = task_after_sweep(r.exc)
           /\ last' = [Label("sweep", r.failed, 0, r.exc) EXCEPT !.log =
                           IF r.exc # NoExc THEN <<0, 0>>
                           ELSE <<Cardinality(expired_sessions(World, now)),
                                  Cardinality(DOMAIN active_sessions
                                                \ DOMAIN r.world.sessions)
                                    - Cardinality(expired_sessions(World, now))>>]
    /\ reaper_wake' = now + hls_cleanup_interval

\* A connect that fails leaves the registry, the processes and the
\* directories as they were, so the connects taken here are those that go
\* through: the probes come back with a supported codec and metadata that
\* StreamMetadata accepts, and ffmpeg starts
AcceptedTestOutcomes == {o \in TestOutcomes : test_connection(o).exc = NoExc}
AcceptedMetadataOutcomes ==
    {o \in MetadataOutcomes : StreamMetadataValid(probe_stream_metadata(o))}

NextFaults ==
    \/ \E h \in Handlers : ConnectRequest(h, UrlCamera)
    \/ \E h \in Handlers, o \in AcceptedTestOutcomes : TestConnectionDone(h, o)
    \/ \E h \in Handlers, o \in AcceptedMetadataOutcomes :
          ProbeMetadataDone(h, o, "ok")
    \/ \E id \in Ids, os \in TeardownOutcomes : DisconnectOs(id, os)
    \/ \E id \in Ids : GetStatus(id)
    \/ \E id \in Ids : GetPlaylist(id)
    \/ \E id \in Ids : GetSegment(id, SegmentFile)
    \/ \E outcomes \in [DOMAIN active_sessions -> TeardownOutcomes] :
          SweepOs(outcomes)
    \/ Tick
    \/ \E id \in Ids : FFmpegExit(id)
    \/ \E id \in Ids, file \in HlsFiles : FFmpegWrite(id, file)

SpecFaults == Init /\ [][NextFaults]_vars

-----------------------------------------------------------------------------
(* The reaper over two intervals, on the operating system that can refuse    *)
(* signals and deletions.                                                    *)

\* An instant after the sleep that follows a first sweep has ended
LaterInstants == {2 * (hls_cleanup_interval + TimeSpan)}

\* Time passes, up to the second interval
TickLater ==
    /\ \E t \in LaterInstants : t > now /\ now' = t
    /\ UNCHANGED <<active_sessions, active_processes, running, fs, pc, rtsp_url, detected_codec,
                   teardown, reaper_wake, cleanup_task, serving,
                   middleware, admitted, issued, destroyed>>
    /\ last' = Label("env", NoId, 0, NoExc)

\* The teardowns of a sweep go well, or meet a process that ignores SIGTERM
\* and cannot be killed
Stuck == [sigterm |-> "delivered", exit_after |-> GracePeriod + 4,
          sigkill |-> "raises", rmtree |-> "ok"]
ReaperOutcomes == {Benign, Stuck}

\* The reaper's step
ReaperStep ==
    \E outcomes \in [DOMAIN active_sessions -> ReaperOutcomes] : SweepOs(outcomes)

NextReaper ==
    \/ \E h \in Handlers : ConnectRequest(h, UrlCamera)
    \/ \E h \in Handlers, o \in AcceptedTestOutcomes : TestConnectionDone(h, o)
    \/ \E h \in Handlers, o \in AcceptedMetadataOutcomes :
          ProbeMetadataDone(h, o, "ok")
    \/ ReaperStep
    \/ Tick
    \/ TickLater
    \/ \E id \in Ids : FFmpegExit(id)

\* The steps of the reaper, told by their guard and by what they do to the
\* sleep: no other step changes reaper_wake
ReaperResumes ==
    /\ teardown = NoId
    /\ cleanup_task = "pending"
    /\ now >= reaper_wake
    /\ reaper_wake' = now + hls_cleanup_interval

\* The event loop resumes the reaper's coroutine once its sleep has ended
SpecReaper == Init /\ [][NextReaper]_vars /\ WF_reaper_wake(ReaperResumes)

-----------------------------------------------------------------------------
(* The application from startup to shutdown.                                 *)

\* shutdown_event, run by the server once the requests in flight have been
\* answered: cleanup_all, and nothing else; _cleanup_task is not touched
Shutdown ==
    /\ serving
    /\ teardown = NoId
    /\ \A h \in Handlers : pc[h] = "idle"
    /\ SetWorld(cleanup_all(World))
    /\ serving' = FALSE
    /\ last' = Label("shutdown", NoId, 0, cleanup_all(World).exc)
    /\ UNCHANGED <<now, pc, rtsp_url, detected_codec, teardown, reaper_wake,
                   cleanup_task, issued, middleware, admitted>>

NextLifecycle == Next \/ Shutdown

SpecLifecycle == Init /\ [][NextLifecycle]_vars

-----------------------------------------------------------------------------
(* The shutdown on the operating system that can refuse signals and         *)
(* deletions.                                                               *)

\* HLSService.cleanup_all: destroy_session for each id of the registry, in
\* order; what a destroy raises ends the loop and leaves cleanup_all
cleanup_all_os(w, outcomes) ==
    destroy_each([world |-> w, failed |-> NoId], InOrder(DOMAIN w.sessions), outcomes)

\* shutdown_event, run by the server once the requests in flight have been
\* answered
ShutdownOs(outcomes) ==
    /\ serving
    /\ teardown = NoId
    /\ \A h \in Handlers : pc[h] = "idle"
    /\ LET r == cleanup_all_os(World, outcomes)
       IN  /\ SetWorld([r.world EXCEPT !.exc = NoExc])
           /\ last' = Label("shutdown", r.failed, 0, r.world.exc)
    /\ serving' = FALSE
    /\ UNCHANGED <<now, pc, rtsp_url, detected_codec, teardown, reaper_wake,
                   cleanup_task, issued, middleware, admitted>>

NextShutdown ==
    \/ \E h \in Handlers : ConnectRequest(h, UrlCamera)
    \/ \E h \in Handlers, o \in AcceptedTestOutcomes : TestConnectionDone(h, o)
    \/ \E h \in Handlers, o \in AcceptedMetadataOutcomes :
          ProbeMetadataDone(h, o, "ok")
    \/ \E outcomes \in [DOMAIN active_sessions -> TeardownOutcomes] :
          ShutdownOs(outcomes)
    \/ Tick
    \/ \E id \in Ids : FFmpegExit(id)
    \/ \E id \in Ids, file \in HlsFiles : FFmpegWrite(id, file)

SpecShutdown == Init /\ [][NextShutdown]_vars

-----------------------------------------------------------------------------
(* The rate limiter: requests of two clients to limited and unlimited       *)
(* endpoints around the end of a window, the limits taken from the          *)
(* environment (Settings reads rate_limit_connect and rate_limit_disconnect *)
(* from it).                                                                *)

\* The instants of the requests: startup, the last instant at which a
\* request made at startup is still inside the window, and the first at
\* which it is not
WindowInstants == {0, window_seconds, window_seconds + 1}

RECURSIVE SumLen(_, _)
SumLen(f, S) ==
    IF S = {} THEN 0
    ELSE LET x == CHOOSE y \in S : TRUE IN Len(f[x]) + SumLen(f, S \ {x})

\* The number of requests passed on so far
Passed == SumLen(admitted["connect"], Keys) + SumLen(admitted["disconnect"], Keys)

InitRateLimit ==
    /\ InitServices
    /\ \E connect_limit \in 1..MaxRate, disconnect_limit \in 1..MaxRate :
          middleware = RateLimitMiddleware(connect_limit, disconnect_limit)

\* One request goes through RateLimitMiddleware.dispatch
Dispatch(request) ==
    /\ Passed < MaxRequests
    /\ LET r == dispatch(middleware, request, now)
           endpoint == endpoint_name(request)
       IN  /\ middleware' = r.middleware
           /\ admitted' = IF endpoint # NoEndpoint /\ r.next
                              THEN [admitted EXCEPT ![endpoint][client_ip(request)] =
                                        Append(@, now)]
                              ELSE admitted
           /\ last' = Label("dispatch", NoId, r.status, NoExc)
    /\ UNCHANGED <<now, active_sessions, active_processes, running, fs, pc, rtsp_url,
                   detected_codec, teardown, reaper_wake, issued, destroyed,
                   cleanup_task, serving>>

\* Time passes between requests
TickWindow ==
    /\ \E t \in WindowInstants : t > now /\ now' = t
    /\ last' = Label("env", NoId, 0, NoExc)
    /\ UNCHANGED <<active_sessions, active_processes, running, fs, pc, rtsp_url,
                   detected_codec, teardown, reaper_wake, issued, destroyed,
                   cleanup_task, serving, middleware, admitted>>

NextRateLimit ==
    \/ \E request \in Requests : Dispatch(request)
    \/ TickWindow

SpecRateLimit == InitRateLimit /\ [][NextRateLimit]_vars

-----------------------------------------------------------------------------
(* The same program when clients put credentials into the URL they submit.  *)

\* The well-formed URLs of connect requests, without and with credentials
CredentialUrls == {UrlCamera, UrlWithCredentials}

NextCredentials ==
    \/ \E h \in Handlers, url \in CredentialUrls : ConnectRequest(h, url)
    \/ \E h \in Handlers, o \in AcceptedTestOutcomes : TestConnectionDone(h, o)
    \/ \E h \in Handlers, o \in AcceptedMetadataOutcomes :
          ProbeMetadataDone(h, o, "ok")
    \/ \E id \in Ids : Disconnect(id)
    \/ DisconnectDone
    \/ \E id \in Ids : GetStatus(id)
    \/ \E id \in Ids : GetPlaylist(id)
    \/ Sweep
    \/ Tick
    \/ \E id \in Ids : FFmpegExit(id)
    \/ \E id \in Ids, file \in HlsFiles : FFmpegWrite(id, file)

SpecCredentials == Init /\ [][NextCredentials]_vars


-----------------------------------------------------------------------------
(* Properties of the session registry *)

Registered == DOMAIN active_sessions
IdleTime(id) == now - active_sessions[id].last_activity

\* C1: in every reachable state the registry holds at most
\* max_concurrent_connections records, however connects interleave.
C1_RegistryWithinLimit == Cardinality(Registered) <= max_concurrent_connections

C3_RejectedAtLimit ==
    [][Cardinality(Registered) >= max_concurrent_connections
        => /\ \A url \in Urls :
                connect_camera(World, url) =
                    [exc |-> "ConnectionLimitError", pc |-> "idle"]
           /\ ConnectStatus("ConnectionLimitError") = 429
           /\ \A h \in Handlers : pc[h] = "idle" => pc'[h] = "idle"]_vars

\* A connect has just succeeded and filled the registry; every handler is idle,
\* so the next connect request is the second of two sequential ones.
C3_FullAfterConnect ==
    /\ last.op = "connect"
    /\ last.status = 200
    /\ Cardinality(Registered) = max_concurrent_connections
    /\ \A h \in Handlers : pc[h] = "idle"

\* C4: an id that enters the registry was never issued before, every
\* registered id has been issued, and a destroyed id is never registered again.
C4_IdsNeverReused ==
    [][/\ \A id \in Ids : (id \in DOMAIN active_sessions' /\ id \notin Registered)
                            => id \notin issued
       /\ DOMAIN active_sessions' \subseteq issued'
       /\ destroyed' \cap DOMAIN active_sessions' = {}]_vars

\* A connect has just registered a session after another session was destroyed.
C4_ConnectAfterDestroy ==
    /\ last.op = "connect"
    /\ last.status = 200
    /\ last.id \in Registered
    /\ destroyed # {}
    /\ \A id \in destroyed : id < last.id

\* C5: right after a successful connect, get_session of the id it returned
\* gives the record with that id; right after a destroy or a disconnect of an
\* id, get_session of that id gives None.
C5_CreateGetDestroyGet ==
    /\ (last.op = "connect" /\ last.status = 200)
            => /\ get_session(World, last.id) # None
               /\ get_session(World, last.id).session_id = last.id
    /\ last.op \in {"destroy", "disconnect"} => get_session(World, last.id) = None

\* A disconnect has just removed a session that a connect had registered,
\* while another session is still registered.
C5_DisconnectedOne ==
    /\ last.op = "disconnect"
    /\ last.status = 200
    /\ last.id \in issued
    /\ Registered # {}

\* C6: for an id that is not registered get_session gives None and
\* destroy_session changes nothing and raises nothing; for every id,
\* destroying twice leaves what destroying once leaves.
C6_AbsentIdsAreHarmless ==
    \A id \in Ids :
        /\ id \notin Registered
                => /\ get_session(World, id) = None
                   /\ destroy_session(World, id) = World
        /\ destroy_session(destroy_session(World, id), id).exc = NoExc
        /\ destroy_session(destroy_session(World, id), id) = destroy_session(World, id)

\* destroy_session has just removed an id, which is therefore absent now, and
\* another session is registered.
C6_DestroyedOne ==
    /\ last.op = "destroy"
    /\ last.id \in destroyed
    /\ Registered # {}

C9_RecordRemovedBeforeStop == teardown # NoId => teardown \notin Registered

\* C10: no connect whose test_connection succeeded fails because of what the
\* metadata probe reported.
C10_MetadataNeverBlocksCreate ==
    ~(last.op = "connect" /\ last.exc = "pydantic.ValidationError")

\* C11: a playlist or segment request that is served (200) leaves the
\* session's last_activity equal to the current time, and a sweep does not
\* remove a running session that was read less than session_timeout ago.
C11_ServedRequestsTouch ==
    [][/\ (last'.op \in {"playlist", "segment"} /\ last'.status = 200)
            => /\ last'.id \in DOMAIN active_sessions'
               /\ active_sessions'[last'.id].last_activity = now
       /\ last'.op = "sweep"
            => \A id \in Registered :
                  (IdleTime(id) < session_timeout /\ id \in running)
                        => id \in DOMAIN active_sessions']_vars

\* A sweep has just kept a session that was created more than
\* session_timeout ago and read less than session_timeout ago.
C11_SweepKeptReadSession ==
    /\ last.op = "sweep"
    /\ \E id \in Registered :
          /\ now - active_sessions[id].created_at > session_timeout
          /\ IdleTime(id) < session_timeout

\* C12: a segment request whose file name contains "..", "/" or "\" is
\* answered 400 for every session id, registered or not, and changes nothing;
\* every segment request that is served names a file directly inside the
\* working directory of the session it was asked for.
C12_TraversalRejected ==
    \A id \in Ids, segment_file \in SegmentNames :
        LET r == get_segment(World, id, segment_file, now)
            unsafe == \E i \in 1..Len(segment_file) :
                         \/ segment_file[i] \in {"/", "\\"}
                         \/ i < Len(segment_file) /\ segment_file[i] = "."
                                                  /\ segment_file[i + 1] = "."
        IN  /\ unsafe => r.status = 400 /\ r.world = World
            /\ r.status = 200
                 => LET at == Located(session_get_segment_path(
                                          get_session(World, id), segment_file))
                    IN  /\ Len(at) = 2
                        /\ at[1] = <<ToString(get_session(World, id).output_dir)>>

\* Two sessions are registered, one has written its segment, and a request
\* to the other for that file through ".." is answered 400 although the path
\* names an existing file.
C12_SiblingSegmentRefused ==
    \E a \in Registered, b \in Registered :
        /\ a # b
        /\ PathExists(World, session_get_segment_path(active_sessions[a],
                                                       SiblingSegment(b)))
        /\ get_segment(World, a, SiblingSegment(b), now).status = 400

\* C13: when the connectivity probe runs out of time, test_connection raises
\* TimeoutError, the ffprobe subprocess has been killed, connect answers 408,
\* and the registry, the process table, the processes and the directories are
\* what they were.
C13_ProbeTimeout ==
    [][/\ \A o \in TestOutcomes :
            o.kind = "timeout"
                => /\ test_connection(o).exc = "TimeoutError"
                   /\ prober_after_test(o) = "killed"
       /\ (/\ last'.op = "connect"
           /\ last'.exc = "TimeoutError"
           /\ last'.prober # "exited")
            => /\ last'.status = 408
               /\ last'.prober = "killed"
               /\ last'.id = NoId
               /\ active_sessions' = active_sessions
               /\ active_processes' = active_processes
               /\ running' = running
               /\ fs' = fs]_vars

\* A connect has just been answered 408 after its ffprobe was killed.
C13_TimedOut ==
    /\ last.op = "connect"
    /\ last.exc = "TimeoutError"
    /\ last.status = 408
    /\ last.prober = "killed"

\* C14: for a handler waiting in test_connection, when ffprobe exits
\* non-zero, test_connection raises
\* AuthenticationError if the diagnostic text contains "401" or
\* "Unauthorized"; otherwise RTSPConnectionError if it contains "Connection
\* refused" or "No route to host"; otherwise TimeoutError if it contains
\* "Connection timed out"; otherwise RTSPConnectionError.
C14_ClassificationOrder ==
    \A o \in TestOutcomes :
        (/\ \E h \in Handlers : pc[h] = "test_connection"
         /\ o.kind = "exit"
         /\ o.returncode # 0)
            => LET auth == o.stderr \cap {"401", "Unauthorized"} # {}
                   unreachable ==
                       o.stderr \cap {"Connection refused", "No route to host"} # {}
                   timed_out == "Connection timed out" \in o.stderr
                   exc == test_connection(o).exc
               IN  /\ auth => exc = "AuthenticationError"
                   /\ (~auth /\ unreachable) => exc = "RTSPConnectionError"
                   /\ (~auth /\ ~unreachable /\ timed_out) => exc = "TimeoutError"
                   /\ (~auth /\ ~unreachable /\ ~timed_out)
                        => exc = "RTSPConnectionError"

\* A connect has just failed with AuthenticationError, which is what a
\* diagnostic text with both "401" and "Connection timed out" is classified as.
C14_AuthBeforeTimeout ==
    /\ last.op = "connect"
    /\ last.exc = "AuthenticationError"
    /\ last.prober = "exited"
    /\ \E o \in TestOutcomes :
          /\ {"401", "Connection timed out"} \subseteq o.stderr
          /\ test_connection(o).exc = last.exc

\* C15: for a handler waiting in test_connection, when ffprobe exits with 0,
\* the detected codec name (without regard to case) hevc is returned as h265,
\* h264 and h265 are returned as they are, every other name raises
\* UnsupportedCodecError carrying that name, and no codec outside
\* {h264, h265} is ever returned.
C15_CodecNormalised ==
    \A o \in TestOutcomes :
        (/\ \E h \in Handlers : pc[h] = "test_connection"
         /\ o.kind = "exit"
         /\ o.returncode = 0)
            => LET detected == Lower(o.stdout)
                   r == test_connection(o)
               IN  /\ detected = "hevc" => r = [exc |-> NoExc, codec |-> "h265"]
                   /\ detected \in {"h264", "h265"}
                        => r = [exc |-> NoExc, codec |-> detected]
                   /\ detected \notin {"h264", "h265", "hevc"}
                        => r = [exc |-> "UnsupportedCodecError", codec |-> detected]
                   /\ r.exc = NoExc => r.codec \in {"h264", "h265"}

\* One connect has just been refused for its codec (415) while another has
\* passed the connectivity test; vp9 is refused by name and hevc passes as h265.
C15_RefusedAndAccepted ==
    /\ last.op = "connect"
    /\ last.exc = "UnsupportedCodecError"
    /\ last.status = 415
    /\ \E h \in Handlers : pc[h] = "probe_stream_metadata"
    /\ \E o \in TestOutcomes :
          o.stdout = "vp9" /\ test_connection(o).codec = "vp9"
    /\ \E o \in TestOutcomes :
          o.stdout = "hevc" /\ test_connection(o).codec = "h265"

\* C16: a connect that fails is answered with the status of the exception
\* raised: ValidationError 400, AuthenticationError 401, TimeoutError 408,
\* UnsupportedCodecError 415, ConnectionLimitError 429, RTSPConnectionError
\* itself 503, anything else 500.  This holds for the failures answered after
\* a probe and for those answered before the first await.
C16_StatusOfErrorKind ==
    LET Expected(exc) ==
            IF exc = "ValidationError" THEN 400
            ELSE IF exc = "AuthenticationError" THEN 401
            ELSE IF exc = "TimeoutError" THEN 408
            ELSE IF exc = "UnsupportedCodecError" THEN 415
            ELSE IF exc = "ConnectionLimitError" THEN 429
            ELSE IF exc = "RTSPConnectionError" THEN 503
            ELSE 500
    IN  /\ (last.op = "connect" /\ last.exc # NoExc)
                => last.status = Expected(last.exc)
        /\ \A url \in Urls :
              LET r == connect_camera(World, url)
              IN  r.exc # NoExc => ConnectStatus(r.exc) = Expected(r.exc)

\* A connect has just failed with AuthenticationError, a subclass of
\* RTSPConnectionError, and was answered 401.
C16_AuthAnswered401 ==
    /\ last.op = "connect"
    /\ last.exc = "AuthenticationError"
    /\ last.status = 401
    /\ IsInstance(last.exc, "RTSPConnectionError")

C19_DestroyNeverRaises ==
    last.op = "disconnect"
        => /\ last.exc = NoExc
           /\ last.status = 200
           /\ last.id \notin Registered
           /\ last.id \notin DOMAIN active_processes

\* C20: in a sweep, every session other than the one whose destroy raised is
\* removed if it is expired or its process has exited.
C20_SweepGoesOn ==
    [][last'.op = "sweep"
        => \A id \in Registered \ {last'.id} :
              (IdleTime(id) > session_timeout \/ id \notin running)
                    => id \notin DOMAIN active_sessions']_vars

-----------------------------------------------------------------------------
(* Properties of scheduling, of the probes and of the reaper task *)

\* C21: no wait holds the event loop.  The probes and the reaper's sleep are
\* awaited, so they end a step; the grace period of terminate is spent inside
\* destroy_session, which has no suspension point, so the property asks that
\* for every registered session, whatever the process does after SIGTERM,
\* the step that destroys it spends no time in Popen.wait.
C21_NoWaitHoldsTheLoop ==
    \A id \in Registered, os \in TeardownOutcomes :
        terminate_calls(World, id, os).waited = 0

\* The handlers whose connect is in the connecting phase: suspended in one of
\* the two probes
Connecting == {h \in Handlers : pc[h] \in {"test_connection", "probe_stream_metadata"}}

\* C22: wherever another handler or the reaper can run (no destroy_session is
\* between its two removals), the registered ids are exactly the ids with a
\* supervisor entry, and each has its directory; a connect in the connecting
\* phase has no id yet, so get_session finds no record but those of finished
\* connects, the count and the reaper's two lists hold only those, and the
\* steps that enter or continue the connecting phase leave registry,
\* supervisor and directories untouched.
C22_RecordIffProcessAndDirectory ==
    /\ [](teardown = NoId
            => /\ Registered = DOMAIN active_processes
               /\ Registered \subseteq DOMAIN fs
               /\ \A id \in Ids \ issued : get_session(World, id) = None
               /\ get_active_session_count(World) = Cardinality(Registered \cap issued)
               /\ expired_sessions(World, now) \cup crashed_sessions(World) \subseteq issued)
    /\ [][Connecting' # {} /\ last'.op = "await"
            => /\ active_sessions' = active_sessions
               /\ active_processes' = active_processes
               /\ fs' = fs
               /\ issued' = issued]_vars

\* One connect is suspended in its metadata probe while another session is
\* registered, and a session has been destroyed before
C22_ConnectingBesideRegistered ==
    /\ teardown = NoId
    /\ \E h \in Handlers : pc[h] = "probe_stream_metadata"
    /\ Registered # {}
    /\ destroyed # {}

\* C23: the rtsp_url of every record in the registry is free of credentials:
\* it does not hold the password.
C23_StoredUrlHasNoCredentials ==
    \A id \in Registered : ~Contains(Password, active_sessions[id].rtsp_url)

\* C24: when a connect ends, in success or in error, the ffprobe subprocess
\* of the probe that ended last is not running any more: it was never
\* started, it has exited, or it was killed after its timeout.
C24_NoProberLeftRunning ==
    last.op = "connect" => last.prober \in {"none", "exited", "killed"}

\* C25: a disconnect whose transcoder ignored SIGTERM past the grace period,
\* so that terminate went on to SIGKILL, returns without an exception and
\* leaves no running process for the session.
C25_StuckTranscoderIsKilled ==
    (last.op = "disconnect" /\ last.signals = <<"SIGTERM", "SIGKILL">>)
        => /\ last.exc = NoExc
           /\ last.id \notin running

\* C26: the reaper's task stays pending whatever a sweep raises; every sweep,
\* raising or not, is followed by a sleep of one interval; a sweep that is due
\* is carried out; and a sweep in which no destroy raises, whether or not
\* an earlier sweep raised, removes every session that is expired or
\* whose process is not running at that time.
C26_ReaperKeepsSweeping ==
    /\ [](cleanup_task = "pending")
    /\ [][last'.op = "sweep"
            => /\ reaper_wake' = now + hls_cleanup_interval
               /\ last'.exc = NoExc
                    => \A id \in Registered :
                          (IdleTime(id) > session_timeout \/ id \notin running)
                              => id \notin DOMAIN active_sessions']_vars
    /\ (now >= reaper_wake) ~> (now < reaper_wake)

\* A sweep has just raised while destroying a session: the session is still
\* registered, the exception was logged, and the reaper sleeps again
C26_SweepRaisedAndSleepsAgain ==
    /\ last.op = "sweep"
    /\ last.exc # NoExc
    /\ last.id \in Registered
    /\ cleanup_task = "pending"
    /\ reaper_wake = now + hls_cleanup_interval

\* C27: the reaper's task is pending from startup on; once shutdown_event
\* has run the task is no longer pending, and no sweep is carried out.
C27_ReaperStopsAtShutdown ==
    /\ [](serving => cleanup_task = "pending")
    /\ [](~serving => cleanup_task # "pending")
    /\ [][~serving => last'.op # "sweep"]_vars

\* C28: in every step, a record that is in the registry before and after
\* keeps its session_id (which is its key), rtsp_url, output_dir,
\* stream_metadata and created_at; its last_activity changes only in a
\* step that serves (200) a playlist or segment request for that session,
\* and then becomes the current time.
C28_OnlyLastActivityChanges ==
    [][\A id \in Registered \cap DOMAIN active_sessions' :
          LET before == active_sessions[id]
              after == active_sessions'[id]
          IN  /\ after.session_id = id
              /\ after.session_id = before.session_id
              /\ after.rtsp_url = before.rtsp_url
              /\ after.output_dir = before.output_dir
              /\ after.stream_metadata = before.stream_metadata
              /\ after.created_at = before.created_at
              /\ after.last_activity # before.last_activity
                    => /\ last'.op \in {"playlist", "segment"}
                       /\ last'.status = 200
                       /\ last'.id = id
                       /\ after.last_activity = now]_vars

\* A segment has just been served for a session created earlier: its
\* last_activity is now later than its created_at
C28_TouchedAfterCreation ==
    /\ last.op = "segment"
    /\ last.status = 200
    /\ last.id \in Registered
    /\ active_sessions[last.id].last_activity > active_sessions[last.id].created_at

\* C29: a connect request that gets as far as test_connection with a URL
\* that does not match RTSP_URL_PATTERN is answered with ValidationError
\* (400) and its handler does not go on to the prober; every handler that
\* waits for a prober, in test_connection or in probe_stream_metadata, holds
\* a URL that matches the pattern.
C29_ValidatedBeforeProbing ==
    /\ \A url \in Urls \cup CredentialUrls :
          (~LimitReached(World) /\ ~RTSP_URL_PATTERN(url))
              => /\ connect_camera(World, url).exc = "ValidationError"
                 /\ connect_camera(World, url).pc = "idle"
                 /\ ConnectStatus(connect_camera(World, url).exc) = 400
    /\ \A h \in Connecting : RTSP_URL_PATTERN(rtsp_url[h])

\* One handler waits for the prober with a well-formed URL while a request
\* with a malformed one would be refused
C29_ProbingAndRefusing ==
    /\ \E h \in Handlers :
          pc[h] = "test_connection" /\ validate_url_format(rtsp_url[h])
    /\ \E h \in Handlers, url \in Urls :
          pc[h] = "idle" /\ connect_camera(World, url).exc = "ValidationError"

\* C30: whatever the username and password fields of the request hold, no
\* log entry written for a connect request whose handler has gone on to the
\* probes holds the password: neither the entries written up to the first
\* ffprobe nor those create_session writes afterwards.
C30_NoPasswordInLogs ==
    \A h \in Connecting, c \in Credentials, os \in SpawnOutcomes :
        LET entries == connect_camera_log(World, rtsp_url[h], c.username, c.password)
                        \o create_session_log(rtsp_url[h], c.username, c.password, os)
        IN  \A i \in DOMAIN entries : ~Contains(Password, entries[i].text)

-----------------------------------------------------------------------------
(* Properties of the error mapping, the stored codec, the processes, the     *)
(* shutdown and the rate limiter                                             *)

\* C31: for the exception of the services that ended a connect, the global
\* exception handler gives the status the route answered with, and it
\* gives 404 for SessionNotFoundError.
C31_HandlerAgreesWithRoute ==
    /\ (last.op = "connect" /\ IsInstance(last.exc, "TimelapserBaseException"))
            => exception_handler(last.exc) = last.status
    /\ exception_handler("SessionNotFoundError") = 404

\* C32: the record a connect inserts holds, as the codec of its
\* stream_metadata, the codec test_connection returned to that connect.
C32_StoredCodecIsDetectedCodec ==
    [][(last'.op = "connect" /\ last'.status = 200)
        => \E h \in Handlers :
              /\ pc[h] = "probe_stream_metadata"
              /\ pc'[h] = "idle"
              /\ active_sessions'[last'.id].stream_metadata.codec = detected_codec[h]]_vars

\* C33: every ffmpeg process that is running belongs to an id with a record
\* in the registry and an entry in the supervisor; in particular the process
\* of a destroyed session is not running.
C33_NoProcessOutlivesSession ==
    /\ running \subseteq (Registered \cap DOMAIN active_processes)
    /\ running \cap destroyed = {}

\* C34: a session whose ffmpeg process has exited keeps its record until a
\* sweep, a disconnect or a call of destroy_session removes it; until then
\* get_status answers 200 for it (the body of that answer always says
\* "connected") and it counts toward max_concurrent_connections, so with the
\* registry at the limit every connect request is refused with
\* ConnectionLimitError although no ffmpeg process of it is running.
C34_ExitedSessionStaysRegistered ==
    [][\A id \in Registered \ running :
          /\ get_status(World, id) = 200
          /\ Cardinality(Registered) >= max_concurrent_connections
                => \A url \in Urls :
                      connect_camera(World, url).exc = "ConnectionLimitError"
          /\ id \notin DOMAIN active_sessions'
                => last'.op \in {"sweep", "disconnect", "destroy"}]_vars

\* The ffmpeg process of a registered session has just exited, the registry
\* is at the limit with no process running, and a handler is free to take a
\* connect request.
C34_ExitedAtLimit ==
    /\ last.op = "env"
    /\ teardown = NoId
    /\ running = {}
    /\ Cardinality(Registered) = max_concurrent_connections
    /\ Registered \subseteq DOMAIN active_processes
    /\ \E h \in Handlers : pc[h] = "idle"

\* C35: once cleanup_all has run to its end in the shutdown handler, the
\* registry and the supervisor's process table are empty, no ffmpeg process
\* is running and no session directory is left.
C35_NothingLeftAfterShutdown ==
    (last.op = "shutdown" /\ last.exc = NoExc)
        => /\ Registered = {}
           /\ DOMAIN active_processes = {}
           /\ running = {}
           /\ DOMAIN fs = {}

\* The requests of a key the middleware passed on to an endpoint between
\* two instants, both included
PassedWithin(endpoint, key, from, to) ==
    Cardinality({i \in DOMAIN admitted[endpoint][key] :
                    from <= admitted[endpoint][key][i] /\ admitted[endpoint][key][i] <= to})

\* No window of window_seconds holds more passed requests of one key on one
\* endpoint than the requests_per_minute of the endpoint's limiter
WithinRate ==
    \A endpoint \in Endpoints, key \in Keys, t \in WindowInstants :
        PassedWithin(endpoint, key, t, t + window_seconds)
            <= LimiterOf(middleware, endpoint).requests_per_minute

\* C36: per endpoint and client key at most requests_per_minute requests
\* are passed on in any window of 60 seconds; a request to a limited
\* endpoint is passed on and recorded exactly when fewer than
\* requests_per_minute passed requests of its key on that endpoint lie within
\* the last 60 seconds; a refused request leaves the limiters as they were; a
\* request changes nothing for another key or the other endpoint; and a
\* request to any other method and path is passed on without a record.
C36_RateLimited ==
    [][/\ WithinRate /\ WithinRate'
       /\ \A request \in Requests :
             LET endpoint == endpoint_name(request)
                 key == client_ip(request)
                 r == dispatch(middleware, request, now)
             IN  IF endpoint = NoEndpoint
                     THEN r.next /\ r.middleware = middleware
                     ELSE /\ r.next <=>
                               PassedWithin(endpoint, key, now - window_seconds, now)
                                 < LimiterOf(middleware, endpoint).requests_per_minute
                          /\ ~r.next => r.status = 429 /\ r.middleware = middleware
                          /\ r.next =>
                               /\ LimiterOf(r.middleware, endpoint).requests[key] =
                                     Append(PopOld(LimiterOf(middleware, endpoint).requests[key],
                                                   now - window_seconds), now)
                               /\ \A e \in Endpoints, k \in Keys :
                                     (e # endpoint \/ k # key)
                                       => LimiterOf(r.middleware, e).requests[k] =
                                            LimiterOf(middleware, e).requests[k]
       /\ (last'.op = "dispatch" /\ last'.status = 429)
             => middleware' = middleware /\ admitted' = admitted]_vars

\* A request has just been refused sixty seconds after the requests that
\* filled its key's window at startup, while the other endpoint has passed
\* a request of the same key on.
C36_RefusedAtWindowEdge ==
    /\ last.op = "dispatch"
    /\ last.status = 429
    /\ now = window_seconds
    /\ \E endpoint \in Endpoints, key \in Keys :
          /\ Len(admitted[endpoint][key])
                = LimiterOf(middleware, endpoint).requests_per_minute
          /\ \A i \in DOMAIN admitted[endpoint][key] : admitted[endpoint][key][i] = 0
          /\ \E other \in Endpoints \ {endpoint} :
                /\ admitted[other][key] # <<>>
                /\ Len(admitted[other][key])
                      < LimiterOf(middleware, other).requests_per_minute

====
